---- MODULE Spec2Model ----
(***************************************************************************)
(* Model of the codemirror one-way sync extension (src/src/extension.ts). *)
(*                                                                         *)
(* Every handler of the extension host runs to completion on one thread,  *)
(* so each action below is one whole handler or one whole callback: a     *)
(* change event, the completion callback of one rsync process, a menu     *)
(* selection, the completion of the ssh reachability check of AddHost.    *)
(* Strings are sequences of one-character strings, so that split(':'),    *)
(* trim() and includes() are computed and not assumed.                    *)
(***************************************************************************)
EXTENDS Naturals, Sequences, FiniteSets, Bags, TLC

(* ------------------------------ bounds -------------------------------- *)
\* child processes (rsync transfers and ssh reachability checks) that one
\* activation starts: the counter execCount is capped here
MaxSpawned == 2
\* length of the host strings given to validateHost
MaxLen == 4

(* ------------------------------ values -------------------------------- *)
\* enum SyncState, lines 9-14
Init_ == "init"
Synced == "synced"
Syncing == "syncing"
Error == "error"
SyncStates == {Init_, Synced, Syncing, Error}

\* enum DeletionMode, lines 16-20
Off == "off"
Once == "once"
On == "on"
DeletionModes == {Off, Once, On}

\* `undefined` for currentHost / lastUsedHost (lines 6, 30, 181, 216)
Unset == <<"undefined">>
\* "no host to persist": a cycle that was not started by setHost
None == <<"none">>

HostA == <<"a", ":", "x">>
HostB == <<"b", ":", "y">>
\* what the user may type into the AddHost input box
AddInputs == {HostA, HostB, <<>>, <<"a">>, <<":", "x">>, <<"a", ":">>,
              <<"a", ":", "x", ":", "y">>}
\* the characters of the host strings given to validateHost
Alphabet == {"a", " ", ":"}
Strings(n) == UNION {[1..k -> Alphabet] : k \in 0..n}
\* the standard outputs of rsync that are drawn: lines by their prefix
StdOuts == {<<>>, <<"change:", "delete:", "change:", "sending">>}

(* --------------------------- pure functions --------------------------- *)
Range(s) == {s[i] : i \in 1..Len(s)}

\* String.prototype.trim
RECURSIVE TrimLeft(_)
TrimLeft(s) == IF s # <<>> /\ Head(s) = " " THEN TrimLeft(Tail(s)) ELSE s
RECURSIVE TrimRight(_)
TrimRight(s) ==
    IF s # <<>> /\ s[Len(s)] = " " THEN TrimRight(SubSeq(s, 1, Len(s) - 1)) ELSE s
Trim(s) == TrimRight(TrimLeft(s))

\* host.split(':'), line 227
RECURSIVE Split(_)
Split(s) ==
    IF \E i \in 1..Len(s) : s[i] = ":"
    THEN LET i == CHOOSE k \in 1..Len(s) :
                      s[k] = ":" /\ \A j \in 1..(k - 1) : s[j] # ":"
         IN  <<SubSeq(s, 1, i - 1)>> \o Split(SubSeq(s, i + 1, Len(s)))
    ELSE <<s>>

\* mutant: the format check counts the parts only
FormatOkTwoParts(host) == Len(Split(host)) = 2

\* the format check of validateHost, lines 227-231
FormatOk(host) ==
    LET parts == Split(host)
    IN  ~(Len(parts) # 2 \/ parts[1] = <<>> \/ parts[2] = <<>>)

\* validateHost(host, testReachability), lines 226-249: the value its promise
\* resolves with, `reachable` being the outcome of the ssh process (error is null)
ValidateHost(host, testReachability, reachable) ==
    IF ~FormatOk(host) THEN FALSE
    ELSE IF testReachability THEN reachable
    ELSE TRUE

\* mutant: the guard tests the trimmed text only and lets undefined through
NoHostSelectedTrimOnly(host) == host = <<>> \/ Trim(host) = <<>>

\* the guard of line 63: !currentHost || currentHost.trim() === ''
NoHostSelected(host) == host = Unset \/ host = <<>> \/ Trim(host) = <<>>

\* mutant: the command always carries the delete flag
DeleteFlagAlways(mode) == TRUE

\* line 94: deletionMode !== 'off' ? '--delete-after ' : ''
DeleteFlag(mode) == mode # Off

\* mutant: the callback tests the exit status only
ProcessFailedExitOnly(error, stderr) == error

\* lines 104 and 111: if (error) ... if (stderr) ...
ProcessFailed(error, stderr) == error \/ stderr

\* the message of a failed exec callback, lines 107 and 114
FailureMessage(error, stderr) == IF error THEN "error.message" ELSE "stderr"

\* mutant: the Once token is never consumed
ModeAfterSuccessKept(mode) == mode

\* lines 118-120: if (deletionMode === Once) deletionMode = Off
ModeAfterSuccess(mode) == IF mode = Once THEN Off ELSE mode

\* line 129: stdout.split('\n').filter(line => line.startsWith('change:'))
IsChange(line) == line = "change:"
ChangedLines(stdout) == SelectSeq(stdout, IsChange)

\* mutant: a command is dropped while a transfer is running
ExecCoalesced(running, c) == IF running = <<>> THEN <<c>> ELSE running

\* exec(command, ...), line 100: the running processes after the call
Exec(running, c) == Append(running, c)

\* mutant: the selection is kept when the selected host is removed
HostAfterRemoveKept(hostToRemove, host) == host

\* lines 180-183: the selection after removing hostToRemove
HostAfterRemove(hostToRemove, host) == IF hostToRemove = host THEN Unset ELSE host

\* line 184: remoteHosts.filter(host => host !== hostToRemove)
RECURSIVE Filter(_, _)
Filter(hosts, hostToRemove) ==
    IF hosts = <<>> THEN <<>>
    ELSE IF Head(hosts) = hostToRemove THEN Filter(Tail(hosts), hostToRemove)
    ELSE <<Head(hosts)>> \o Filter(Tail(hosts), hostToRemove)

\* mutant: the membership test of promptAddHost is missing
IncludesNever(hosts, newHost) == FALSE

\* line 262: remoteHosts.includes(newHost)
Includes(hosts, newHost) == \E i \in 1..Len(hosts) : hosts[i] = newHost

(* ------------------------------- state -------------------------------- *)
VARIABLES
    remoteHosts,    \* line 5
    currentHost,    \* line 6
    deletionMode,   \* line 21
    syncState,      \* the state shown by statusBarItem (lines 291-309)
    storedHosts,    \* globalState 'remoteHosts'
    lastUsedHost,   \* workspaceState 'lastUsedHost'
    hasWorkspace,   \* vscode.workspace.workspaceFolders?.[0] is defined
    cycles,         \* rsync processes whose exec callback has not run yet, oldest first
    pendingAdds,    \* bag of hosts whose ssh reachability check is running
    execCount,      \* number of exec() calls (rsync and ssh) since activation
    prevState,      \* history: the state shown before the current one
    scenario,       \* history: the cycle events since activation
    stateTrace,     \* history: the states shown since activation
    onceDone,       \* history: cycles started with the delete flag since the mode was
                    \* set to Once that succeeded
    newest,         \* history: what became of the transfer started last, "none" once
                    \* anything but a transfer has set the state shown
    disabled,       \* history: Disable Sync was picked and setHost not called since
    last            \* history: what the handler that ran last gave back or showed

vars == <<remoteHosts, currentHost, deletionMode, syncState, storedHosts,
          lastUsedHost, hasWorkspace, cycles, pendingAdds, execCount,
          prevState, scenario, stateTrace, onceDone, newest, disabled, last>>

persisted == <<storedHosts, lastUsedHost>>
cycleVars == <<cycles, execCount>>
statusVars == <<syncState, prevState, scenario, stateTrace>>

(* ------------------------- history bookkeeping ------------------------ *)
Pattern == <<"start", "ok", "start", "ok">>
Deviated == <<"deviated">>

ScenarioAfter(ev) ==
    IF scenario # Deviated /\ Len(scenario) < Len(Pattern)
       /\ Pattern[Len(scenario) + 1] = ev
    THEN Append(scenario, ev)
    ELSE Deviated

\* `last` is what the handler that ran last was given, saw when it started and
\* gave back.  A handler that neither called runSyncCommand, nor completed a
\* cycle, nor answered a registry command leaves Other.
Other ==
    [op |-> "other",
     \* seen at the start: currentHost (for a call: the host of the call),
     \* deletionMode, execCount, the number of running transfers, remoteHosts,
     \* the stored 'lastUsedHost'
     host |-> Unset, mode |-> Off, execs |-> 0, running |-> 0, hosts |-> <<>>,
     lastUsed |-> Unset,
     \* the host that the then() of the caller persists on success
     persist |-> None,
     \* given: the callback arguments error and stderr, the ssh outcome,
     \* whether the host argument was selected / was in the registry
     error |-> FALSE, stderr |-> FALSE, reachable |-> FALSE,
     selected |-> FALSE, present |-> FALSE,
     \* the delete flag of the command of the completed cycle
     del |-> FALSE,
     \* given back: the promise was resolved, with { success, message }, the
     \* count named in a success message; or the message shown
     resolved |-> FALSE, success |-> FALSE, message |-> "", changed |-> 0]

Seen(op, host) ==
    [Other EXCEPT !.op = op, !.host = host, !.mode = deletionMode, !.execs = execCount,
                  !.running = Len(cycles), !.hosts = remoteHosts,
                  !.lastUsed = lastUsedHost]

\* a call of runSyncCommand whose promise is still pending
Called(host, persist) == [Seen("call", host) EXCEPT !.persist = persist]

\* a call of runSyncCommand that resolved at once
Refused(host, persist, message) ==
    [Called(host, persist) EXCEPT
        !.resolved = TRUE, !.success = FALSE, !.message = message]

\* the exec callback of cycle c
Completed(c, error, stderr, success, message, changed) ==
    [Seen("complete", currentHost) EXCEPT
        !.error = error, !.stderr = stderr, !.del = c.del, !.persist = c.persist,
        !.resolved = TRUE,
        !.success = success, !.message = message, !.changed = changed]

\* a registry command on the host arg and the message it showed
Report(op, arg, message) ==
    [Seen(op, currentHost) EXCEPT
        !.selected = (arg = currentHost), !.present = Includes(remoteHosts, arg),
        !.message = message]

\* mutant: a process whose callback ran stays in the list
RemoveAtNothing(s, i) == s

RemoveAt(s, i) == SubSeq(s, 1, i - 1) \o SubSeq(s, i + 1, Len(s))

(* ----------------------------- status bar ----------------------------- *)
\* updateStatusBar(newState), lines 279-317, applied to the status [state, prev,
\* trace]: the text of the item is that of newState
UpdateStatusBar(sb, newState) ==
    IF newState = sb.state THEN sb
    ELSE [state |-> newState, prev |-> sb.state, trace |-> Append(sb.trace, newState)]

RECURSIVE UpdateAll(_, _)
UpdateAll(sb, newStates) ==
    IF newStates = <<>> THEN sb
    ELSE UpdateAll(UpdateStatusBar(sb, Head(newStates)), Tail(newStates))

\* the calls updateStatusBar(s) for s in newStates, in this order, in a handler
\* whose cycle event is ev
SetStatus(newStates, ev) ==
    LET sb == UpdateAll([state |-> syncState, prev |-> prevState, trace |-> stateTrace],
                        newStates)
    IN  /\ syncState' = sb.state
        /\ prevState' = sb.prev
        /\ scenario' = ScenarioAfter(ev)
        /\ stateTrace' = IF scenario' = Deviated THEN <<>> ELSE sb.trace

\* the states runSyncCommand shows, in order: without a host (line 64), without
\* a workspace (lines 69, 74), before exec (lines 69, 80), in the exec callback
\* after a failure (lines 106, 113) and after a success (line 137)
ShownWithoutHost == <<Init_>>
\* mutant: the workspace is looked up before Syncing is shown
ShownWithoutWorkspaceErrorOnly == <<Error>>
ShownWithoutWorkspace == <<Syncing, Error>>
\* mutant: a starting cycle does not show Syncing
ShownOnStartNothing == <<>>
ShownOnStart == <<Syncing, Syncing>>
ShownOnFailure == <<Error>>
ShownOnSuccess == <<Synced>>

(* ------------------------------ activate ------------------------------ *)
\* the state after activate(), lines 24-57, given what the storage holds
Activated(hosts, lastUsed, workspace) ==
    /\ remoteHosts = hosts
    /\ currentHost = lastUsed
    /\ deletionMode = Off
    /\ syncState = Init_
    /\ storedHosts = hosts
    /\ lastUsedHost = lastUsed
    /\ hasWorkspace = workspace
    /\ cycles = <<>>
    /\ pendingAdds = EmptyBag
    /\ execCount = 0
    /\ prevState = Init_
    /\ scenario = <<>>
    /\ stateTrace = <<Init_>>
    /\ onceDone = 0
    /\ newest = "none"
    /\ disabled = FALSE
    /\ last = Other

\* first activation: empty storage
Init == \E workspace \in BOOLEAN : Activated(<<>>, Unset, workspace)

(* ---------------------------- runSyncCommand -------------------------- *)
\* runSyncCommand(), lines 60-99, up to and including exec(): `host` is
\* currentHost at the call, `persist` the host the caller's then() persists on
\* success (None when the caller is the file watcher), `shown` what the caller
\* itself reports (Other when it is the call that is reported)
RunSyncCommand(host, persist, shown) ==
    IF NoHostSelected(host)
    THEN /\ SetStatus(ShownWithoutHost, "other")
         /\ last' = Refused(host, persist, "no remote host selected")
         /\ newest' = "none"
         /\ UNCHANGED <<cycles, execCount>>
    ELSE IF ~hasWorkspace
    THEN /\ SetStatus(ShownWithoutWorkspace, "other")
         /\ last' = IF shown = Other
                    THEN Refused(host, persist, "no workspace folder found")
                    ELSE shown
         /\ newest' = "none"
         /\ UNCHANGED <<cycles, execCount>>
    ELSE /\ execCount < MaxSpawned
         /\ SetStatus(ShownOnStart, IF cycles = <<>> THEN "start" ELSE "other")
         /\ cycles' = Exec(cycles, [del |-> DeleteFlag(deletionMode),
                                    persist |-> persist,
                                    once |-> deletionMode = Once])
         /\ execCount' = execCount + 1
         /\ last' = IF shown = Other THEN Called(host, persist) ELSE shown
         /\ newest' = "running"

\* watcher.onDidChange, lines 45-49
FileChange(scheme) ==
    IF scheme = "file"
    THEN /\ RunSyncCommand(currentHost, None, Other)
         /\ UNCHANGED <<remoteHosts, currentHost, deletionMode, persisted, hasWorkspace,
                        pendingAdds, onceDone, disabled>>
    ELSE UNCHANGED vars

\* mutant: the then() of setHost persists the host whatever the result
LastUsedAfterAnyResult(success, persist, stored) ==
    IF persist # None THEN persist ELSE stored

\* setHost's then(), lines 156-160: what 'lastUsedHost' holds afterwards
LastUsedAfter(success, persist, stored) ==
    IF success /\ persist # None THEN persist ELSE stored

\* the exec callback of runSyncCommand, lines 100-142, for the i-th running
\* process, followed by the then() of setHost when setHost started the cycle
Complete(i, error, stderr, stdout) ==
    LET c == cycles[i]
    IN  /\ i \in 1..Len(cycles)
        /\ cycles' = RemoveAt(cycles, i)
        /\ newest' = IF i = Len(cycles) /\ newest = "running"
                      THEN (IF ProcessFailed(error, stderr) THEN "failed" ELSE "ok")
                      ELSE newest
        /\ IF ProcessFailed(error, stderr)
           THEN /\ SetStatus(ShownOnFailure, "other")
                /\ last' = Completed(c, error, stderr, FALSE,
                                      FailureMessage(error, stderr), 0)
                /\ lastUsedHost' = LastUsedAfter(FALSE, c.persist, lastUsedHost)
                /\ UNCHANGED <<deletionMode, onceDone>>
           ELSE /\ deletionMode' = ModeAfterSuccess(deletionMode)
                /\ SetStatus(ShownOnSuccess, "ok")
                /\ last' = Completed(c, error, stderr, TRUE, "Synced",
                                      Len(ChangedLines(stdout)))
                /\ lastUsedHost' = LastUsedAfter(TRUE, c.persist, lastUsedHost)
                /\ onceDone' = IF c.once /\ c.del THEN onceDone + 1 ELSE onceDone
        /\ UNCHANGED <<remoteHosts, currentHost, storedHosts, hasWorkspace, pendingAdds,
                       execCount, disabled>>

(* ------------------------------- commands ----------------------------- *)
\* setHost(context, host), lines 154-161, up to the return of runSyncCommand
SetHost(host, shown) ==
    /\ currentHost' = host
    /\ disabled' = FALSE
    /\ RunSyncCommand(host, host, shown)

\* promptSelectHost, the host entries of the menu, lines 197-200 and 219-221
SelectHost(host) ==
    /\ host \in Range(remoteHosts)
    /\ SetHost(host, Other)
    /\ UNCHANGED <<remoteHosts, deletionMode, persisted, hasWorkspace, pendingAdds,
                   onceDone>>

\* promptSelectHost, '$(stop) Disable Sync', lines 215-218
DisableSync ==
    /\ currentHost' = Unset
    /\ lastUsedHost' = Unset
    /\ SetStatus(<<Init_>>, "other")
    /\ newest' = "none"
    /\ disabled' = TRUE
    /\ last' = Other
    /\ UNCHANGED <<remoteHosts, deletionMode, storedHosts, hasWorkspace, cycleVars,
                   pendingAdds, onceDone>>

\* selection.toLowerCase() as DeletionMode, line 167
ToLowerCase(selection) ==
    CASE selection = "Once" -> Once
      [] selection = "On" -> On
      [] selection = "Off" -> Off

\* promptDeletionMode, lines 164-171; updateStatusBar() shows no new state
PromptDeletionMode(selection) ==
    /\ deletionMode' = ToLowerCase(selection)
    /\ cycles' = [i \in 1..Len(cycles) |-> [cycles[i] EXCEPT !.once = FALSE]]
    /\ onceDone' = 0
    /\ last' = Other
    /\ UNCHANGED <<remoteHosts, currentHost, persisted, hasWorkspace, pendingAdds,
                   execCount, statusVars, newest, disabled>>

\* the then() of promptRemoveHost, lines 177-188, for a non-empty pick; the menu
\* offers the registry, the handler itself takes any string
RemoveHost(hostToRemove) ==
    /\ currentHost' = HostAfterRemove(hostToRemove, currentHost)
    /\ IF hostToRemove = currentHost
       THEN SetStatus(<<Init_>>, "other") /\ newest' = "none"
       ELSE UNCHANGED <<statusVars, newest>>
    /\ remoteHosts' = Filter(remoteHosts, hostToRemove)
    /\ storedHosts' = remoteHosts'
    /\ last' = Report("remove", hostToRemove, "Removed host")
    /\ UNCHANGED <<deletionMode, lastUsedHost, hasWorkspace, cycleVars, pendingAdds,
                   onceDone, disabled>>

\* promptAddHost, lines 253-257, and validateHost up to the ssh exec, lines
\* 226-237: the format check runs at once, the reachability check is started
PromptAddHost(newHost) ==
    /\ IF newHost = <<>>
       THEN UNCHANGED <<pendingAdds, execCount, last>>
       ELSE IF ~FormatOk(newHost)
       THEN /\ last' = Report("prompt", newHost, "Invalid host format")
            /\ UNCHANGED <<pendingAdds, execCount>>
       ELSE /\ execCount < MaxSpawned
            /\ pendingAdds' = pendingAdds (+) SetToBag({newHost})
            /\ execCount' = execCount + 1
            /\ last' = Other
    /\ UNCHANGED <<remoteHosts, currentHost, deletionMode, persisted, hasWorkspace,
                   cycles, statusVars, onceDone, newest, disabled>>

\* the ssh callback of validateHost, lines 237-244, and the then() of
\* promptAddHost, lines 257-272
AddHostChecked(newHost, reachable) ==
    /\ BagIn(newHost, pendingAdds)
    /\ pendingAdds' = pendingAdds (-) SetToBag({newHost})
    /\ IF ~reachable
       THEN /\ last' = Report("add", newHost, "Cannot access remote path")
            /\ UNCHANGED <<remoteHosts, currentHost, storedHosts, cycleVars, statusVars,
                           newest, disabled>>
       ELSE IF Includes(remoteHosts, newHost)
       THEN /\ last' = [Report("add", newHost, "already exists")
                           EXCEPT !.reachable = TRUE]
            /\ UNCHANGED <<remoteHosts, currentHost, storedHosts, cycleVars, statusVars,
                           newest, disabled>>
       ELSE /\ remoteHosts' = Append(remoteHosts, newHost)
            /\ storedHosts' = remoteHosts'
            /\ SetHost(newHost, [Report("add", newHost, "Added new host")
                                     EXCEPT !.reachable = TRUE])
    /\ UNCHANGED <<deletionMode, lastUsedHost, hasWorkspace, onceDone>>

\* the extension host is restarted: deactivate(), lines 148-152, the callbacks
\* of the old process are gone, then activate(), lines 24-57
Restart ==
    /\ remoteHosts' = storedHosts
    /\ currentHost' = lastUsedHost
    /\ deletionMode' = Off
    /\ syncState' = Init_
    /\ cycles' = <<>>
    /\ pendingAdds' = EmptyBag
    /\ execCount' = 0
    /\ prevState' = Init_
    /\ scenario' = <<>>
    /\ stateTrace' = <<Init_>>
    /\ onceDone' = 0
    /\ newest' = "none"
    /\ last' = Other
    /\ UNCHANGED <<persisted, hasWorkspace, disabled>>

Hosts == {h \in AddInputs : FormatOk(h)}

(* ----------------------------- validateHost --------------------------- *)
\* validateHost on its own: a host string is given ...
InitValidate ==
    \E host \in Strings(MaxLen) :
        /\ remoteHosts = <<>>
        /\ currentHost = Unset
        /\ deletionMode = Off
        /\ syncState = Init_
        /\ storedHosts = <<>>
        /\ lastUsedHost = Unset
        /\ hasWorkspace = TRUE
        /\ cycles = <<>>
        /\ pendingAdds = EmptyBag
        /\ execCount = 0
        /\ prevState = Init_
        /\ scenario = <<>>
        /\ stateTrace = <<Init_>>
        /\ onceDone = 0
        /\ newest = "none"
        /\ disabled = FALSE
        /\ last = [Other EXCEPT !.op = "input", !.host = host]

\* ... and validateHost(host, false) resolves
ValidateHostCall(reachable) ==
    /\ last.op = "input"
    /\ last' = [last EXCEPT !.op = "validate", !.resolved = TRUE,
                            !.success = ValidateHost(last.host, FALSE, reachable)]
    /\ UNCHANGED <<remoteHosts, currentHost, deletionMode, persisted, hasWorkspace,
                   cycleVars, pendingAdds, statusVars, onceDone, newest, disabled>>

NextValidate == \E reachable \in BOOLEAN : ValidateHostCall(reachable)

SpecValidate == InitValidate /\ [][NextValidate]_vars

\* a running rsync process ends and its exec callback runs
ExecCallback ==
    \E i \in 1..Len(cycles), error \in BOOLEAN, stderr \in BOOLEAN, stdout \in StdOuts :
        Complete(i, error, stderr, stdout)

\* the steps of one activation of the extension
NextActivation ==
    \/ \E scheme \in {"file", "untitled"} : FileChange(scheme)
    \/ ExecCallback
    \/ \E host \in Hosts : SelectHost(host)
    \/ DisableSync
    \/ \E selection \in {"Once", "On", "Off"} : PromptDeletionMode(selection)
    \/ \E hostToRemove \in Hosts : RemoveHost(hostToRemove)
    \/ \E newHost \in AddInputs : PromptAddHost(newHost)
    \/ \E newHost \in Hosts, reachable \in BOOLEAN : AddHostChecked(newHost, reachable)

Next ==
    \/ NextActivation
    \/ Restart

Spec == Init /\ [][Next]_vars

(* ----------------------- one activation, fairly ----------------------- *)
\* an activation that finds a:x stored as the one registered host and as the
\* host used last
InitStored == \E workspace \in BOOLEAN : Activated(<<HostA>>, HostA, workspace)

\* one activation in which every rsync process ends: child_process.exec calls
\* its callback when the child has exited
SpecFair == InitStored /\ [][NextActivation]_vars /\ WF_vars(ExecCallback)

(* ------------------------------ properties ---------------------------- *)
\* no host: undefined, empty or nothing but whitespace
Blank(host) == host = Unset \/ \A k \in 1..Len(host) : host[k] = " "

\* C1: a call of runSyncCommand while no host is selected resolves at once
\* with success = false, shows Init and starts no transfer (no exec call, no
\* new process).
C1_NoHostNoTransfer ==
    last.op = "call" /\ Blank(last.host)
      => /\ last.resolved /\ ~last.success
         /\ syncState = Init_
         /\ execCount = last.execs
         /\ Len(cycles) = last.running

\* a cycle was refused for want of a host while an earlier transfer, started
\* before the host was deselected, is still running
C1_Witness ==
    /\ last.op = "call" /\ Blank(last.host) /\ Blank(currentHost)
    /\ last.message = "no remote host selected"
    /\ syncState = Init_ /\ prevState = Syncing
    /\ Len(cycles) = 1

\* C2: the completion of a transfer that exits non-zero or writes to stderr,
\* whatever its stdout, resolves with success = false, shows Error (never
\* Synced) and leaves the deletion mode as it was.
C2_ProcessErrorFails ==
    last.op = "complete" /\ (last.error \/ last.stderr)
      => /\ last.resolved /\ ~last.success
         /\ syncState = Error
         /\ deletionMode = last.mode

\* a transfer that exited 0 and wrote to stderr has completed while the mode
\* was Once
C2_Witness ==
    /\ last.op = "complete" /\ ~last.error /\ last.stderr
    /\ syncState = Error
    /\ deletionMode = Once

\* C3: with the mode at Once, a successful completion of a cycle that ran with
\* the delete flag leaves the mode Off, a failed completion leaves it Once.
C3_OnceRevertsOnSuccessOnly ==
    last.op = "complete" /\ last.mode = Once
      => IF last.error \/ last.stderr
         THEN deletionMode = Once
         ELSE last.del => deletionMode = Off

\* a cycle started with the delete flag under Once has just succeeded, and the
\* mode is Off
C3_Witness ==
    /\ last.op = "complete" /\ last.mode = Once /\ last.del /\ last.success
    /\ deletionMode = Off

\* C4: after the mode is set to Once, at most one cycle that runs with the
\* delete flag succeeds.
C4_OnceDeletesOnce == onceDone <= 1

\* C5: a completion that takes the mode from Once to Off is the successful
\* completion of a cycle whose own command carried the delete flag.
C5_RevertOnlyByDeletingCycle ==
    last.op = "complete" /\ last.mode = Once /\ deletionMode = Off
      => last.del /\ ~(last.error \/ last.stderr)

\* C6: Synced and Error are entered from Syncing only.
C6_ThroughSyncing == syncState \in {Synced, Error} => prevState = Syncing

\* C7: two consecutive successful cycles from Init show, up to stuttering,
\* Init, Syncing, Synced, Syncing, Synced, and never Error.
C7_TwoCycleTrace ==
    scenario = Pattern => stateTrace = <<Init_, Syncing, Synced, Syncing, Synced>>

\* two non-overlapping cycles have succeeded since activation and nothing else
\* touched the status bar
C7_Witness == scenario = Pattern /\ syncState = Synced /\ cycles = <<>>

\* C8: removing the selected host leaves no host selected and shows Init;
\* removing any other host, registered or not, leaves the selection as it was.
C8_RemoveSelection ==
    last.op = "remove"
      => IF last.selected
         THEN currentHost = Unset /\ syncState = Init_
         ELSE currentHost = last.host

\* the selected host was removed while its transfer was running
C8_Witness ==
    /\ last.op = "remove" /\ last.selected /\ last.present
    /\ currentHost = Unset
    /\ syncState = Init_
    /\ cycles # <<>>

NoDuplicates == \A i, j \in 1..Len(remoteHosts) : remoteHosts[i] = remoteHosts[j] => i = j

\* C9 as stated: an add of a host that is in the registry leaves the registry
\* unchanged, reports that the host already exists and starts no cycle; the
\* registry never holds a host twice.
C9_AddExisting ==
    /\ last.op = "add" /\ last.present
         => /\ remoteHosts = last.hosts
            /\ last.message = "already exists"
            /\ execCount = last.execs /\ Len(cycles) = last.running
    /\ NoDuplicates

\* C9 as amended: an add of a host that is in the registry when its
\* reachability check completes leaves the registry unchanged and starts no
\* cycle; it reports that the host already exists when the check succeeded, and
\* that the remote path cannot be accessed when it failed; the registry never
\* holds a host twice.
C9_AddExistingChecked ==
    /\ last.op = "add" /\ last.present
         => /\ remoteHosts = last.hosts
            /\ last.message = IF last.reachable THEN "already exists"
                              ELSE "Cannot access remote path"
            /\ execCount = last.execs /\ Len(cycles) = last.running
    /\ NoDuplicates

\* an add whose reachability check succeeded found its host registered, and
\* the registry still holds each of its two hosts once
C9_Witness ==
    /\ last.op = "add" /\ last.present /\ last.reachable
    /\ last.message = "already exists"
    /\ Len(remoteHosts) = 2 /\ NoDuplicates

\* C10: the selected host is unset or a member of the registry.
C10_CurrentHostRegistered == currentHost = Unset \/ currentHost \in Range(remoteHosts)

\* C11: setHost(h) selects h and calls runSyncCommand at once; the stored
\* 'lastUsedHost' becomes h when that cycle resolves with success = true and is
\* left as it was when the cycle resolves with success = false, at once or in
\* the exec callback.
C11_PersistOnSuccessOnly ==
    /\ last.op = "call" /\ last.persist # None
         => /\ currentHost = last.persist /\ last.host = last.persist
            /\ last.resolved \/ Len(cycles) = last.running + 1
            /\ lastUsedHost = last.lastUsed
    /\ last.op = "complete" /\ last.persist # None
         => lastUsedHost = IF last.success THEN last.persist ELSE last.lastUsed

\* the cycle of a setHost(b:y) has failed while 'lastUsedHost' held a:x, which
\* it still holds
C11_Witness ==
    /\ last.op = "complete" /\ last.persist = HostB /\ ~last.success
    /\ last.lastUsed = HostA
    /\ lastUsedHost = HostA

\* exactly one colon, with at least one character before it and after it
OneColonBothSides(h) ==
    \E k \in 1..Len(h) :
        /\ h[k] = ":"
        /\ 1 < k /\ k < Len(h)
        /\ \A j \in 1..Len(h) : h[j] = ":" => j = k

\* C12: validateHost(h, false) resolves with true if and only if h holds
\* exactly one colon and both the part before it and the part after it are
\* non-empty.
C12_ValidateFormat ==
    last.op = "validate" => (last.success <=> OneColonBothSides(last.host))

\* validateHost(" : ", false) has resolved with true
C12_Witness ==
    last.op = "validate" /\ last.host = <<" ", ":", " ">> /\ last.success

\* C13: a call of runSyncCommand with a host and a workspace starts a transfer
\* of its own, whatever is running: it is neither resolved at once, nor
\* queued, nor merged with a running transfer.  (That two transfers run at the
\* same time is the witness.)
C13_NotSerialized ==
    last.op = "call" /\ ~Blank(last.host) /\ hasWorkspace
      => /\ ~last.resolved
         /\ Len(cycles) = last.running + 1
         /\ execCount = last.execs + 1

\* a change event arrived while a transfer was running, and two transfers are
\* running now
C13_Witness ==
    /\ last.op = "call" /\ last.persist = None /\ last.running = 1
    /\ Len(cycles) = 2

\* C14: whenever no host is selected, the state shown is Init.
C14_NoHostInit == Blank(currentHost) => syncState = Init_

\* the delete flags of the commands of the running transfers, oldest first
Dels(cs) == [i \in 1..Len(cs) |-> cs[i].del]

\* C15: the command of a starting cycle carries the delete flag iff the mode
\* is not Off when the cycle starts, and no step changes the flag of the
\* command of a transfer that is running: not a change of the mode by the
\* user, not the reversion of Once to Off by another cycle.
C15_FlagReadOnceAtStart ==
    [][/\ Len(cycles') = Len(cycles) + 1
            => Dels(cycles') = Append(Dels(cycles), deletionMode # Off)
       /\ Len(cycles') = Len(cycles) => Dels(cycles') = Dels(cycles)
       /\ Len(cycles') < Len(cycles)
            => \/ cycles' = <<>>
               \/ \E i \in 1..Len(cycles) :
                      Dels(cycles') = SubSeq(Dels(cycles), 1, i - 1)
                                        \o SubSeq(Dels(cycles), i + 1, Len(cycles))]_vars

\* a transfer started under Once is running with the delete flag after the
\* success of another cycle has taken the mode to Off
C15_Witness ==
    /\ last.op = "complete" /\ last.mode = Once /\ deletionMode = Off
    /\ Len(cycles) = 1 /\ cycles[1].del

\* a call of runSyncCommand with a host selected and no workspace folder
CalledWithoutWorkspace == last.op = "call" /\ ~Blank(last.host) /\ ~hasWorkspace

\* what C16 as stated and as amended share: the call resolves at once with
\* success = false, Error is shown and no transfer is started
RefusedWithError ==
    /\ last.resolved /\ ~last.success
    /\ syncState = Error
    /\ execCount = last.execs
    /\ Len(cycles) = last.running

\* C16 as stated: a call of runSyncCommand with a host and without a workspace
\* folder resolves with success = false, shows Error and starts no transfer,
\* and Error is shown without Syncing having been shown.
C16_ErrorBeforeSyncing ==
    CalledWithoutWorkspace => RefusedWithError /\ prevState # Syncing

\* C16 as amended: a call of runSyncCommand with a host and without a workspace
\* folder resolves with success = false, shows Error and starts no transfer;
\* Syncing is shown before the workspace folder is looked up, so Error is
\* entered from Syncing.
C16_ErrorAfterSyncing ==
    CalledWithoutWorkspace => RefusedWithError /\ prevState = Syncing

\* a change event with a host selected and no workspace folder was refused
C16_Witness ==
    /\ CalledWithoutWorkspace
    /\ last.persist = None /\ last.message = "no workspace folder found"
    /\ syncState = Error

\* C17: while a transfer is running and a host is selected, the state shown is
\* Syncing.
C17_SyncingWhileRunning == cycles # <<>> /\ ~Blank(currentHost) => syncState = Syncing

\* C18: when no transfer is running, the state shown is that of the outcome
\* of the transfer started last: Error if it failed, Synced if it succeeded.
C18_NewestCycleWins ==
    cycles = <<>> => /\ newest = "failed" => syncState = Error
                     /\ newest = "ok" => syncState = Synced

\* C19: after Disable Sync, the stored 'lastUsedHost' is unset for as long as
\* setHost is not called again.
C19_DisabledStaysUnset == disabled => lastUsedHost = Unset

\* a call of runSyncCommand is resolved at once exactly when there is no host
\* or no workspace folder, and then starts no process; otherwise its promise
\* is pending on one new process; an exec callback resolves the promise of its
\* own process and of no other
ResolvedOnce ==
    /\ last.op = "call"
         => /\ last.resolved <=> (Blank(last.host) \/ ~hasWorkspace)
            /\ Len(cycles) = last.running + (IF last.resolved THEN 0 ELSE 1)
    /\ last.op = "complete"
         => last.resolved /\ Len(cycles) + 1 = last.running

\* C20: every call of runSyncCommand resolves exactly once: at once without a
\* host or a workspace folder, and otherwise in the one exec callback of its
\* process, which runs eventually when every rsync process ends; no promise
\* stays pending.
C20_ResolvesExactlyOnce ==
    /\ []ResolvedOnce
    /\ cycles # <<>> ~> cycles = <<>>

\* two transfers overlapped, the one started last succeeded first, and the
\* callback of the other has now resolved the last pending promise with a
\* failure
C20_Witness ==
    /\ last.op = "complete" /\ last.resolved /\ ~last.success
    /\ last.running = 1 /\ cycles = <<>>
    /\ newest = "ok"

====
